---------------------------- MODULE Spec2Model ----------------------------
(***************************************************************************)
(* A model of src/main.js: the postcodes.io front end.                     *)
(*                                                                         *)
(* Strings are sequences of pieces.  A piece is a run of characters; each  *)
(* of the five reserved markup characters  & < > " '  that belongs to a    *)
(* JavaScript string value is always a piece of its own, so that the       *)
(* character-wise replacements of escapeHTML can be modelled piece by      *)
(* piece.  The fixed markup a template literal contributes ("<ul>",        *)
(* "</li>", ...) is written as one piece per tag.                          *)
(*                                                                         *)
(* JSON / JavaScript values are records of one shape:                      *)
(*   t    : "undef" | "null" | "bool" | "num" | "str" | "arr" | "obj"      *)
(*   s    : the pieces of a string                                         *)
(*   n    : the number (or 1/0 for true/false)                             *)
(*   keys : the keys of an object, in insertion order                      *)
(*   kids : the items of an array / the values of an object                *)
(***************************************************************************)
EXTENDS Integers, Sequences, FiniteSets, TLC

VARIABLES
    results,     \* the cards of the #results container, in document order
    tasks,       \* the handler invocations: id -> record
    finished,    \* ids of the invocations that have returned, in that order
    fetchCount,  \* number of calls of fetch() so far
    concurrent,  \* TRUE when the user clicks without waiting for a response
    rv,          \* renderer harness: the value handed to generateHTML
    rout         \* renderer harness: the markup generateHTML returned

vars == <<results, tasks, finished, fetchCount, concurrent, rv, rout>>

(***************************************************************************)
(* Bounds of the model.                                                    *)
(***************************************************************************)
MaxTasks == 2
MaxItems == 2
MaxStrLen == 2
MaxDepth == 2

(***************************************************************************)
(* JavaScript values.                                                      *)
(***************************************************************************)
JVal(t, s, n, keys, kids) ==
    [t |-> t, s |-> s, n |-> n, keys |-> keys, kids |-> kids]

JUndef == JVal("undef", <<>>, 0, <<>>, <<>>)
JNull == JVal("null", <<>>, 0, <<>>, <<>>)
JBool(b) == JVal("bool", <<>>, IF b THEN 1 ELSE 0, <<>>, <<>>)
JNum(n) == JVal("num", <<>>, n, <<>>, <<>>)
JStr(s) == JVal("str", s, 0, <<>>, <<>>)
JArr(kids) == JVal("arr", <<>>, 0, <<>>, kids)
JObj(keys, kids) == JVal("obj", <<>>, 0, keys, kids)

Nullish(v) == v.t \in {"undef", "null"}
IsArray(v) == v.t = "arr"

\* v[k]: the value of property k, undefined when v has no such own property.
Field(v, k) ==
    IF v.t = "obj" /\ \E i \in 1..Len(v.keys) : v.keys[i] = <<k>>
    THEN v.kids[CHOOSE i \in 1..Len(v.keys) : v.keys[i] = <<k>>]
    ELSE JUndef

\* JavaScript truthiness.
Truthy(v) ==
    CASE v.t \in {"undef", "null"} -> FALSE
      [] v.t = "bool" -> v.n = 1
      [] v.t = "num" -> v.n # 0
      [] v.t = "str" -> v.s # <<>>
      [] OTHER -> TRUE

RECURSIVE Flatten(_)
Flatten(ss) == IF ss = <<>> THEN <<>> ELSE Head(ss) \o Flatten(Tail(ss))

Min(S) == CHOOSE x \in S : \A y \in S : x <= y
Max(S) == CHOOSE x \in S : \A y \in S : x >= y

\* String(v), as a template literal or generateHTML applies it.  An array
\* joins the strings of its items with commas, null and undefined items
\* giving the empty string.
RECURSIVE String(_)
String(v) ==
    CASE v.t = "str" -> v.s
      [] v.t = "num" -> <<ToString(v.n)>>
      [] v.t = "bool" -> IF v.n = 1 THEN <<"true">> ELSE <<"false">>
      [] v.t = "null" -> <<"null">>
      [] v.t = "undef" -> <<"undefined">>
      [] v.t = "obj" -> <<"[object Object]">>
      [] OTHER ->
           Flatten([i \in 1..Len(v.kids) |->
               (IF i > 1 THEN <<",">> ELSE <<>>)
               \o (IF Nullish(v.kids[i]) THEN <<>> ELSE String(v.kids[i]))])

\* String.prototype.trim: leading and trailing white space removed.
WhiteSpace == {" ", "\n"}
trim(str) ==
    LET keep == {i \in 1..Len(str) : str[i] \notin WhiteSpace}
    IN  IF keep = {} THEN <<>> ELSE SubSeq(str, Min(keep), Max(keep))

\* String.prototype.toUpperCase on the pieces the inputs are made of.
toUpperCase(str) ==
    [i \in 1..Len(str) |->
        CASE str[i] = "ab1" -> "AB1"
          [] str[i] = "a1" -> "A1"
          [] str[i] = "b2" -> "B2"
          [] OTHER -> str[i]]

\* encodeURIComponent on the pieces the inputs are made of.
encodeURIComponent(str) ==
    [i \in 1..Len(str) |->
        CASE str[i] = " " -> "%20"
          [] str[i] = "\n" -> "%0A"
          [] str[i] = "," -> "%2C"
          [] OTHER -> str[i]]

(***************************************************************************)
(* escapeHTML and generateHTML (src/main.js 5-44).                         *)
(***************************************************************************)
RECURSIVE ReplaceAll(_, _, _)
ReplaceAll(str, ch, rep) ==
    IF str = <<>> THEN <<>>
    ELSE (IF Head(str) = ch THEN rep ELSE <<Head(str)>>)
         \o ReplaceAll(Tail(str), ch, rep)

\* A faulty escapeHTML: the single-quote replacement is missing.
escapeHTMLNoApos(str) ==
    ReplaceAll(ReplaceAll(ReplaceAll(ReplaceAll(str,
        "&", <<"&", "amp;">>),
        "<", <<"&", "lt;">>),
        ">", <<"&", "gt;">>),
        "\"", <<"&", "quot;">>)

escapeHTML(str) ==
    ReplaceAll(ReplaceAll(ReplaceAll(ReplaceAll(ReplaceAll(str,
        "&", <<"&", "amp;">>),
        "<", <<"&", "lt;">>),
        ">", <<"&", "gt;">>),
        "\"", <<"&", "quot;">>),
        "'", <<"&", "#039;">>)

RECURSIVE generateHTML(_)
generateHTML(obj) ==
    IF Nullish(obj) THEN <<"<span class=\"null\">", "null", "</span>">>
    ELSE IF obj.t \notin {"arr", "obj"} THEN escapeHTML(String(obj))
    ELSE IF IsArray(obj) THEN
        <<"<ul>">>
        \o Flatten([i \in 1..Len(obj.kids) |->
              <<"<li>">> \o generateHTML(obj.kids[i]) \o <<"</li>">>])
        \o <<"</ul>">>
    ELSE
        <<"<ul>">>
        \o Flatten([i \in 1..Len(obj.kids) |->
              <<"<li>", "<strong>">> \o escapeHTML(obj.keys[i])
              \o <<":", "</strong>", " ">>
              \o generateHTML(obj.kids[i]) \o <<"</li>">>])
        \o <<"</ul>">>

(***************************************************************************)
(* The results container (src/main.js 49-80).  A card is the element       *)
(* renderCard builds: its h3 text, the value it shows and the markup       *)
(* assigned to its content.  `owner` records which handler invocation      *)
(* appended the card.                                                      *)
(***************************************************************************)
clearResults == <<>>

\* The element renderCard builds before it is appended (lines 62-69).
renderCard(title, data) ==
    [title |-> title, data |-> data, html |-> generateHTML(data)]

renderError(message) ==
    renderCard(<<"Error">>, JObj(<< <<"message">> >>, <<message>>))

\* A faulty appendChild: the container is emptied before the cards go in.
appendChildReplacing(container, owner, cards) ==
    [i \in 1..Len(cards) |->
        [owner |-> owner, title |-> cards[i].title,
         data |-> cards[i].data, html |-> cards[i].html]]

\* container.appendChild(card), for each card in turn (line 70).
appendChild(container, owner, cards) ==
    container \o [i \in 1..Len(cards) |->
        [owner |-> owner, title |-> cards[i].title,
         data |-> cards[i].data, html |-> cards[i].html]]

IsErrorCard(c) == c.title = <<"Error">>

(***************************************************************************)
(* The request dispatcher (src/main.js 88-115).  A response is what        *)
(* fetch() settles with: a rejection, or a Response whose ok flag, status  *)
(* and body are given; `parses` tells whether the body is JSON text.       *)
(***************************************************************************)
Response(rejected, ok, status, statusText, parses, body) ==
    [rejected |-> rejected, ok |-> ok, status |-> status,
     statusText |-> statusText, parses |-> parses, body |-> body]

NoResponse == Response(FALSE, FALSE, 0, <<>>, FALSE, JUndef)
NetworkFailure == Response(TRUE, FALSE, 0, <<>>, FALSE, JUndef)
HttpFailure == Response(FALSE, FALSE, 404, <<"Not Found">>, TRUE, JUndef)
Unparseable == Response(FALSE, TRUE, 200, <<"OK">>, FALSE, JUndef)
Parsed(body) == Response(FALSE, TRUE, 200, <<"OK">>, TRUE, body)

\* What an awaited call gives the handler: a value, or a thrown error.
Returned(val) == [threw |-> FALSE, err |-> <<>>, val |-> val]
Rejected(err) == [threw |-> TRUE, err |-> err, val |-> JUndef]

\* The part of getJSON after fetch() has settled.
getJSON(resp) ==
    IF resp.rejected THEN Rejected(<<"Failed to fetch">>)
    ELSE IF ~resp.ok
         THEN Rejected(<<ToString(resp.status), " ">> \o resp.statusText)
    ELSE IF ~resp.parses THEN Rejected(<<"Unexpected token in JSON">>)
    ELSE Returned(resp.body)

\* The part of postJSON after fetch() has settled.
postJSON(resp) ==
    IF resp.rejected THEN Rejected(<<"Failed to fetch">>)
    ELSE IF ~resp.ok
         THEN Rejected(<<ToString(resp.status), " ">> \o resp.statusText)
    ELSE IF ~resp.parses THEN Rejected(<<"Unexpected token in JSON">>)
    ELSE Returned(resp.body)

\* The request fetch() is called with.
Request(method, path, query, body) ==
    [method |-> method, path |-> path, query |-> query, body |-> body]
Get(path, query) == Request("GET", path, query, JUndef)
Post(path, body) == Request("POST", path, <<>>, body)

(***************************************************************************)
(* Reading the bulk inputs (src/main.js 184 and 302).                      *)
(***************************************************************************)
\* str.split(/\n|,/): the segments between separators.  A segment starts at
\* position 1 and after every separator (also after a trailing one, where
\* it is empty), and runs up to the next separator.
split(str) ==
    LET positions == [i \in 1..(Len(str) + 1) |-> i]
        IsStart(i) == i = 1 \/ str[i - 1] \in {"\n", ","}
        starts == SelectSeq(positions, IsStart)
    IN  [j \in 1..Len(starts) |->
            SubSeq(str, starts[j],
                   IF j < Len(starts) THEN starts[j + 1] - 2 ELSE Len(str))]

NonEmpty(s) == s # <<>>

\* textarea.value.split(/\n|,/).map((s) => s.trim()).filter(Boolean)
BulkLines(text) ==
    LET segs == split(text)
    IN  SelectSeq([i \in 1..Len(segs) |-> trim(segs[i])], NonEmpty)

\* JSON.parse over a text whose pieces are the JSON tokens: the punctuation
\* [ ] { } , : and the double quote, the literals null true false, number
\* tokens, white space, and (between quotes) the pieces of a string.
NumberTokens == {"0", "1", "5"}
NumberOf(tok) == CASE tok = "0" -> 0 [] tok = "1" -> 1 [] OTHER -> 5

SkipSpace(text, i) ==
    LET rest == {j \in i..Len(text) : text[j] \notin WhiteSpace}
    IN  IF rest = {} THEN Len(text) + 1 ELSE Min(rest)

ParseOk(val, pos) == [ok |-> TRUE, val |-> val, pos |-> pos]
ParseFail == [ok |-> FALSE, val |-> JUndef, pos |-> 0]

\* A string token starting at the quote at position i.
ParseString(text, i) ==
    LET close == {j \in (i + 1)..Len(text) : text[j] = "\""}
    IN  IF close = {} THEN ParseFail
        ELSE ParseOk(JStr(SubSeq(text, i + 1, Min(close) - 1)), Min(close) + 1)

RECURSIVE ParseValue(_, _), ParseItems(_, _, _), ParseEntries(_, _, _, _)

\* The value starting at or after position i0.
ParseValue(text, i0) ==
    LET i == SkipSpace(text, i0)
    IN  IF i > Len(text) THEN ParseFail
        ELSE CASE text[i] = "null" -> ParseOk(JNull, i + 1)
               [] text[i] = "true" -> ParseOk(JBool(TRUE), i + 1)
               [] text[i] = "false" -> ParseOk(JBool(FALSE), i + 1)
               [] text[i] \in NumberTokens ->
                      ParseOk(JNum(NumberOf(text[i])), i + 1)
               [] text[i] = "\"" -> ParseString(text, i)
               [] text[i] = "[" ->
                      LET j == SkipSpace(text, i + 1)
                      IN  IF j <= Len(text) /\ text[j] = "]"
                          THEN ParseOk(JArr(<<>>), j + 1)
                          ELSE ParseItems(text, i + 1, <<>>)
               [] text[i] = "{" ->
                      LET j == SkipSpace(text, i + 1)
                      IN  IF j <= Len(text) /\ text[j] = "}"
                          THEN ParseOk(JObj(<<>>, <<>>), j + 1)
                          ELSE ParseEntries(text, i + 1, <<>>, <<>>)
               [] OTHER -> ParseFail

\* The items of an array after its "[" or after a ","; acc holds the items
\* read so far.
ParseItems(text, i0, acc) ==
    LET item == ParseValue(text, i0)
        j == SkipSpace(text, item.pos)
    IN  IF ~item.ok \/ j > Len(text) THEN ParseFail
        ELSE IF text[j] = "]" THEN ParseOk(JArr(Append(acc, item.val)), j + 1)
        ELSE IF text[j] = "," THEN ParseItems(text, j + 1, Append(acc, item.val))
        ELSE ParseFail

\* The entries of an object after its "{" or after a ",".
ParseEntries(text, i0, keys, kids) ==
    LET i == SkipSpace(text, i0)
        key == IF i <= Len(text) /\ text[i] = "\"" THEN ParseString(text, i)
               ELSE ParseFail
        c == SkipSpace(text, key.pos)
        item == IF key.ok /\ c <= Len(text) /\ text[c] = ":"
                THEN ParseValue(text, c + 1) ELSE ParseFail
        j == SkipSpace(text, item.pos)
    IN  IF ~item.ok \/ j > Len(text) THEN ParseFail
        ELSE IF text[j] = "}"
             THEN ParseOk(JObj(Append(keys, key.val.s), Append(kids, item.val)),
                          j + 1)
        ELSE IF text[j] = ","
             THEN ParseEntries(text, j + 1, Append(keys, key.val.s),
                               Append(kids, item.val))
        ELSE ParseFail

\* JSON.parse(text): the value, or a thrown SyntaxError.
JSONParse(text) ==
    LET r == ParseValue(text, 1)
    IN  IF r.ok /\ SkipSpace(text, r.pos) > Len(text)
        THEN Returned(r.val)
        ELSE Rejected(<<"Unexpected token in JSON">>)

(***************************************************************************)
(* The body of each handler's try block, from the settled request on       *)
(* (src/main.js 122-476).  The result is the cards rendered, in order, and *)
(* whether the block ended by throwing err.  A property read on null or    *)
(* undefined throws a TypeError.                                           *)
(***************************************************************************)
Completed(cards) == [cards |-> cards, threw |-> FALSE, err |-> <<>>]
Threw(cards, err) == [cards |-> cards, threw |-> TRUE, err |-> err]

TypeError == <<"Cannot read properties of null">>

\* data.status === 200
Is200(data) == Field(data, "status") = JNum(200)

\* a || b
OrElse(a, b) == IF Truthy(a) THEN a ELSE b

\* Array.isArray(data.result) && data.result.length
NonEmptyArray(v) == IsArray(v) /\ Len(v.kids) > 0

\* items.forEach((item, idx) => ...) for a callback that first reads a
\* property of item and then renders Card(item, idx): the cards of the items
\* before the first null one, and the TypeError that one raises.
ForEach(items, Card(_, _)) ==
    LET bad == {i \in 1..Len(items) : Nullish(items[i])}
        last == IF bad = {} THEN Len(items) ELSE Min(bad) - 1
        cards == [i \in 1..last |-> Card(items[i], i - 1)]
    IN  IF bad = {} THEN Completed(cards) ELSE Threw(cards, TypeError)

\* A faulty lookup: the API's error text is ignored.
LookupTryFallbackOnly(r, title, fallback) ==
    IF r.threw THEN Threw(<<>>, r.err)
    ELSE IF Nullish(r.val) THEN Threw(<<>>, TypeError)
    ELSE IF Is200(r.val)
         THEN Completed(<<renderCard(title, Field(r.val, "result"))>>)
    ELSE Completed(<<renderError(JStr(fallback))>>)

\* A faulty lookup: the envelope's status is not looked at.
LookupTryUnchecked(r, title, fallback) ==
    IF r.threw THEN Threw(<<>>, r.err)
    ELSE IF Nullish(r.val) THEN Threw(<<>>, TypeError)
    ELSE Completed(<<renderCard(title, Field(r.val, "result"))>>)

\* The shape shared by the five lookups: one card for data.result, or the
\* API's error text, or the fallback.
LookupTry(r, title, fallback) ==
    IF r.threw THEN Threw(<<>>, r.err)
    ELSE IF Nullish(r.val) THEN Threw(<<>>, TypeError)
    ELSE IF Is200(r.val)
         THEN Completed(<<renderCard(title, Field(r.val, "result"))>>)
    ELSE Completed(<<renderError(
             OrElse(Field(r.val, "error"), JStr(fallback)))>>)

lookupPostcodeBtnTry(postcode, r) ==
    LookupTry(r, <<"Postcode: ">> \o toUpperCase(postcode),
              <<"No data found for ">> \o postcode)

validatePostcodeBtnTry(postcode, r) ==
    IF r.threw THEN Threw(<<>>, r.err)
    ELSE IF Nullish(r.val) THEN Threw(<<>>, TypeError)
    ELSE IF Field(r.val, "result").t = "bool"
         THEN Completed(<<renderCard(
                  <<"Validate Postcode: ">> \o toUpperCase(postcode),
                  JObj(<< <<"postcode">>, <<"valid">> >>,
                       <<JStr(toUpperCase(postcode)), Field(r.val, "result")>>))>>)
    ELSE Completed(<<renderError(JStr(<<"Unexpected validation response">>))>>)

\* The shape shared by five searches: one card per item of a non-empty
\* data.result, titled by one of the item's properties.
SearchTry(r, label, property, message) ==
    IF r.threw THEN Threw(<<>>, r.err)
    ELSE IF Nullish(r.val) THEN Threw(<<>>, TypeError)
    ELSE IF Is200(r.val) /\ NonEmptyArray(Field(r.val, "result"))
         THEN ForEach(Field(r.val, "result").kids,
                  LAMBDA item, idx :
                      renderCard(<<label, ToString(idx + 1), ": ">>
                                 \o String(Field(item, property)), item))
    ELSE Completed(<<renderError(JStr(message))>>)

queryPostcodeBtnTry(query, r) ==
    SearchTry(r, "Match ", "postcode",
              <<"No matches found for query ", "'">> \o query \o <<"'", ".">>)

bulkLookupBtnTry(lines, r) ==
    IF r.threw THEN Threw(<<>>, r.err)
    ELSE IF Nullish(r.val) THEN Threw(<<>>, TypeError)
    ELSE IF Is200(r.val) /\ IsArray(Field(r.val, "result"))
         THEN ForEach(Field(r.val, "result").kids,
                  LAMBDA item, idx :
                      IF Truthy(Field(item, "result"))
                      THEN renderCard(<<"Bulk Result for ">>
                                      \o String(Field(item, "query")),
                                      Field(item, "result"))
                      ELSE renderCard(<<"Bulk Result for ">>
                                      \o String(Field(item, "query")),
                                      JObj(<< <<"error">> >>,
                                           <<JStr(<<"Not found">>)>>)))
    ELSE Completed(<<renderError(JStr(<<"Unexpected bulk lookup response.">>))>>)

randomPostcodeBtnTry(outcodeInput, r) ==
    IF r.threw THEN Threw(<<>>, r.err)
    ELSE IF Nullish(r.val) THEN Threw(<<>>, TypeError)
    ELSE IF Is200(r.val)
         THEN Completed(<<renderCard(<<"Random Postcode">>,
                                     Field(r.val, "result"))>>)
    ELSE Completed(<<renderError(
             JStr(<<"Failed to retrieve random postcode.">>))>>)

\* A faulty autocomplete: one card per suggestion.
autocompleteBtnTryPerItem(partial, r) ==
    IF r.threw THEN Threw(<<>>, r.err)
    ELSE IF Nullish(r.val) THEN Threw(<<>>, TypeError)
    ELSE IF Is200(r.val) /\ NonEmptyArray(Field(r.val, "result"))
         THEN Completed([i \in 1..Len(Field(r.val, "result").kids) |->
                  renderCard(<<"Autocomplete for ", "'">> \o partial \o <<"'">>,
                             Field(r.val, "result").kids[i])])
    ELSE Completed(<<renderError(JStr(
             <<"No autocomplete results for ", "'">> \o partial
             \o <<"'", ".">>))>>)

autocompleteBtnTry(partial, r) ==
    IF r.threw THEN Threw(<<>>, r.err)
    ELSE IF Nullish(r.val) THEN Threw(<<>>, TypeError)
    ELSE IF Is200(r.val) /\ NonEmptyArray(Field(r.val, "result"))
         THEN Completed(<<renderCard(
                  <<"Autocomplete for ", "'">> \o partial \o <<"'">>,
                  Field(r.val, "result"))>>)
    ELSE Completed(<<renderError(JStr(
             <<"No autocomplete results for ", "'">> \o partial
             \o <<"'", ".">>))>>)

nearestPostcodeBtnTry(postcode, r) ==
    SearchTry(r, "Nearest ", "postcode",
              <<"No nearest postcodes found for ", "'">> \o postcode
              \o <<"'", ".">>)

reverseGeocodeBtnTry(latlon, r) ==
    SearchTry(r, "Reverse Geocode ", "postcode",
              <<"No postcodes found for the provided coordinates.">>)

bulkReverseBtnTry(geolocations, r) ==
    IF r.threw THEN Threw(<<>>, r.err)
    ELSE IF Nullish(r.val) THEN Threw(<<>>, TypeError)
    ELSE IF Is200(r.val) /\ IsArray(Field(r.val, "result"))
         THEN ForEach(Field(r.val, "result").kids,
                  LAMBDA item, idx :
                      renderCard(<<"Bulk Reverse Result ", ToString(idx + 1)>>,
                                 Field(item, "result")))
    ELSE Completed(<<renderError(
             JStr(<<"Unexpected bulk reverse geocode response.">>))>>)

reverseOutcodeBtnTry(latlon, r) ==
    SearchTry(r, "Reverse Outcode ", "outcode",
              <<"No outcodes found for the provided coordinates.">>)

lookupOutcodeBtnTry(outcode, r) ==
    LookupTry(r, <<"Outcode: ">> \o toUpperCase(outcode),
              <<"No data found for outcode ", "'">> \o outcode \o <<"'", ".">>)

nearestOutcodeBtnTry(outcode, r) ==
    SearchTry(r, "Nearest Outcode ", "outcode",
              <<"No nearest outcodes found for ", "'">> \o outcode
              \o <<"'", ".">>)

lookupPlaceBtnTry(code, r) ==
    LookupTry(r, <<"Place Code: ">> \o code,
              <<"No place found for code ", "'">> \o code \o <<"'", ".">>)

queryPlaceBtnTry(query, r) ==
    IF r.threw THEN Threw(<<>>, r.err)
    ELSE IF Nullish(r.val) THEN Threw(<<>>, TypeError)
    ELSE IF Is200(r.val) /\ NonEmptyArray(Field(r.val, "result"))
         THEN ForEach(Field(r.val, "result").kids,
                  LAMBDA item, idx :
                      renderCard(
                          IF Truthy(Field(item, "place_name"))
                          THEN String(Field(item, "place_name"))
                          ELSE <<"Place ", ToString(idx + 1)>>,
                          item))
    ELSE Completed(<<renderError(JStr(
             <<"No places found matching ", "'">> \o query \o <<"'", ".">>))>>)

randomPlaceBtnTry(none, r) ==
    IF r.threw THEN Threw(<<>>, r.err)
    ELSE IF Nullish(r.val) THEN Threw(<<>>, TypeError)
    ELSE IF Is200(r.val)
         THEN Completed(<<renderCard(<<"Random Place">>, Field(r.val, "result"))>>)
    ELSE Completed(<<renderError(JStr(<<"Failed to retrieve random place.">>))>>)

terminatedLookupBtnTry(postcode, r) ==
    LookupTry(r, <<"Terminated Postcode: ">> \o toUpperCase(postcode),
              <<"No terminated data for ", "'">> \o postcode \o <<"'", ".">>)

scottishLookupBtnTry(postcode, r) ==
    LookupTry(r, <<"Scottish Postcode: ">> \o toUpperCase(postcode),
              <<"No Scottish data for ", "'">> \o postcode \o <<"'", ".">>)

\* A faulty catch clause: the error is left to propagate.
TryCatchRethrow(body) == [cards |-> body.cards, escaped |-> body.threw]

\* try { body } catch (err) { renderError(err.message); }
TryCatch(body) ==
    [cards |-> IF body.threw
               THEN Append(body.cards, renderError(JStr(body.err)))
               ELSE body.cards,
     escaped |-> FALSE]

(***************************************************************************)
(* The environment: what the user may have typed, and what the server may  *)
(* answer.                                                                 *)
(***************************************************************************)
BulkLimit == 100

\* The values of a single-line input field.
FieldTexts == {<<>>, <<" ">>, <<" ", "ab1", " ">>}

\* n postcodes, each followed by a comma.
Repeated(n) == [i \in 1..(2 * n) |-> IF i % 2 = 1 THEN "a1" ELSE ","]

\* The values of the bulk postcode textarea.
BulkTexts ==
    {<<>>, <<" ", ",", "\n">>, <<"a1">>, <<" ", "a1", ",", "b2", "\n">>,
     Repeated(BulkLimit), Repeated(BulkLimit + 1)}

\* The values of the bulk geolocation textarea.
GeoTexts ==
    {<<>>, <<" ", "\n">>, <<"not", " ", "json">>, <<"5">>,
     <<"{", "\"", "lat", "\"", ":", "1", "}">>,
     <<"[", "1", ",", "]">>,
     <<"[", "]">>,
     <<" ", "[", "{", "\"", "lat", "\"", ":", "1", ",",
       "\"", "lon", "\"", ":", "5", "}", "]", "\n">>}

\* The items a sequence result is made of: null, a full record, and a record
\* without postcode, outcode, place name or result.
ItemA ==
    JObj(<< <<"postcode">>, <<"outcode">>, <<"place_name">>, <<"query">>,
            <<"result">> >>,
         <<JStr(<<"AB1 2CD">>), JStr(<<"AB1">>), JStr(<<"O", "'", "Town">>),
           JStr(<<"a1">>), JObj(<< <<"country">> >>, <<JStr(<<"England">>)>>)>>)
ItemB == JObj(<< <<"query">>, <<"result">> >>, <<JStr(<<"b2">>), JNull>>)
Items == {JNull, ItemA, ItemB}

SeqsUpTo(S, n) == UNION {[1..k -> S] : k \in 0..n}

\* The values of an envelope's result field; undefined stands for its absence.
ResultValues ==
    {JUndef, JNull, JBool(TRUE), JStr(<<"AB1 2CD">>),
     JObj(<< <<"postcode">> >>, <<JStr(<<"AB1 2CD">>)>>)}
    \cup {JArr(s) : s \in SeqsUpTo(Items, MaxItems)}

ErrorValues == {JUndef, JStr(<<>>), JStr(<<"Postcode not found">>)}

\* The envelope with the given fields; an undefined field is left out.
Envelope(status, result, error) ==
    LET all == << <<"status", status>>, <<"result", result>>,
                  <<"error", error>> >>
        present == SelectSeq(all, LAMBDA kv : kv[2] # JUndef)
    IN  JObj([i \in 1..Len(present) |-> <<present[i][1]>>],
             [i \in 1..Len(present) |-> present[i][2]])

\* The envelopes the server may send: status 200 with every result, and a
\* missing or 404 status with a missing, a boolean and a sequence result
\* and every error text.
Envelopes ==
    {Envelope(JNum(200), res, JUndef) : res \in ResultValues}
    \cup {Envelope(st, res, er) :
            st \in {JUndef, JNum(404)},
            res \in {JUndef, JBool(TRUE), JArr(<<ItemA>>)},
            er \in ErrorValues}

\* Every way a request may settle.
Responses ==
    {NetworkFailure, HttpFailure, Unparseable}
    \cup {Parsed(b) : b \in {JNull, JNum(5)} \cup Envelopes}

\* The ways a request settles when the user does not wait for responses.
RaceResponses ==
    {NetworkFailure,
     Parsed(Envelope(JNum(200), JArr(<<ItemA, ItemB>>), JUndef))}

Settles == IF concurrent THEN RaceResponses ELSE Responses

(***************************************************************************)
(* Handler invocations.  A click runs its handler up to the await (or to   *)
(* an early return); the settling of the request runs it to the end.       *)
(*                                                                         *)
(*   pc       : "idle" (not clicked yet), "awaiting", "done", or "old"     *)
(*              (done, and its record dropped at a later click)            *)
(*   input    : the text the handler read (input2: the second field)       *)
(*   resp     : what its request settled with                              *)
(*   appended : the cards it appended                                      *)
(*   reqs     : the requests it issued                                     *)
(*   escaped  : whether an error left the handler uncaught                 *)
(*   during   : the invocations awaiting a response when it was clicked    *)
(***************************************************************************)
Tasks == 1..MaxTasks

Task(pc, handler, input, input2, resp, appended, reqs, escaped, during) ==
    [pc |-> pc, handler |-> handler, input |-> input, input2 |-> input2,
     resp |-> resp, appended |-> appended, reqs |-> reqs,
     escaped |-> escaped, during |-> during]

IdleTask == Task("idle", "", <<>>, <<>>, NoResponse, <<>>, <<>>, FALSE, {})
OldTask == Task("old", "", <<>>, <<>>, NoResponse, <<>>, <<>>, FALSE, {})

Awaiting == {t \in Tasks : tasks[t].pc = "awaiting"}
NewId == Cardinality({t \in Tasks : tasks[t].pc # "idle"}) + 1

\* The user clicks after the previous response, unless `concurrent`.
MayClick == NewId <= MaxTasks /\ (concurrent \/ Awaiting = {})

\* Only the invocations still running or just finished are kept in full.
Forgotten ==
    [t \in Tasks |-> IF tasks[t].pc = "done" THEN OldTask ELSE tasks[t]]

\* The handler returns at once: nothing cleared, nothing shown, no request.
Returns(handler, input, input2) ==
    /\ tasks' = [Forgotten EXCEPT ![NewId] =
                    Task("done", handler, input, input2, NoResponse,
                         <<>>, <<>>, FALSE, Awaiting)]
    /\ finished' = Append(finished, NewId)
    /\ UNCHANGED <<results, fetchCount, concurrent, rv, rout>>

\* The handler renders an error and returns: no clearResults, no request.
Refuses(handler, input, message) ==
    /\ results' = appendChild(results, NewId, <<renderError(JStr(message))>>)
    /\ tasks' = [Forgotten EXCEPT ![NewId] =
                    Task("done", handler, input, <<>>, NoResponse,
                         appendChild(<<>>, NewId, <<renderError(JStr(message))>>),
                         <<>>, FALSE, Awaiting)]
    /\ finished' = Append(finished, NewId)
    /\ UNCHANGED <<fetchCount, concurrent, rv, rout>>

\* The handler clears the results, calls fetch() and awaits.
Fetches(handler, input, input2, req) ==
    /\ results' = clearResults
    /\ tasks' = [Forgotten EXCEPT ![NewId] =
                    Task("awaiting", handler, input, input2, NoResponse,
                         <<>>, <<req>>, FALSE, Awaiting)]
    /\ fetchCount' = fetchCount + 1
    /\ UNCHANGED <<finished, concurrent, rv, rout>>

\* The request of an awaiting invocation of `handler` settles, and the rest
\* of the handler, Rest(task, resp), runs.
Resume(handler, Rest(_, _)) ==
    \E t \in Awaiting, resp \in Settles :
        /\ tasks[t].handler = handler
        /\ LET out == Rest(tasks[t], resp)
           IN  /\ results' = appendChild(results, t, out.cards)
               /\ tasks' = [tasks EXCEPT
                     ![t].pc = "done",
                     ![t].resp = resp,
                     ![t].appended = appendChild(<<>>, t, out.cards),
                     ![t].escaped = out.escaped]
        /\ finished' = Append(finished, t)
        /\ UNCHANGED <<fetchCount, concurrent, rv, rout>>

\* One required field, read from FieldTexts and trimmed; the request is
\* Req(value).
OneField(handler, Req(_)) ==
    /\ MayClick
    /\ \E text \in FieldTexts :
         IF trim(text) = <<>> THEN Returns(handler, trim(text), <<>>)
         ELSE Fetches(handler, trim(text), <<>>, Req(trim(text)))

\* The latitude and longitude fields, both required.
LatLon(handler, Req(_, _)) ==
    /\ MayClick
    /\ \E text1 \in FieldTexts, text2 \in FieldTexts :
         LET lat == trim(text1)
             lon == trim(text2)
         IN  IF lat = <<>> \/ lon = <<>> THEN Returns(handler, lat, lon)
             ELSE Fetches(handler, lat, lon, Req(lat, lon))

Param(name, value) == <<name, value>>

(***************************************************************************)
(* The handlers (src/main.js 122-476), each as its click and its resume.   *)
(***************************************************************************)
lookupPostcodeBtn ==
    OneField("lookupPostcodeBtn", LAMBDA postcode :
        Get(<<"/postcodes/">> \o encodeURIComponent(postcode), <<>>))

lookupPostcodeBtnResume ==
    Resume("lookupPostcodeBtn", LAMBDA task, resp :
        TryCatch(lookupPostcodeBtnTry(task.input, getJSON(resp))))

validatePostcodeBtn ==
    OneField("validatePostcodeBtn", LAMBDA postcode :
        Get(<<"/postcodes/">> \o encodeURIComponent(postcode)
            \o <<"/validate">>, <<>>))

validatePostcodeBtnResume ==
    Resume("validatePostcodeBtn", LAMBDA task, resp :
        TryCatch(validatePostcodeBtnTry(task.input, getJSON(resp))))

queryPostcodeBtn ==
    OneField("queryPostcodeBtn", LAMBDA query :
        Get(<<"/postcodes">>,
            <<Param("q", query), Param("limit", <<"20">>)>>))

queryPostcodeBtnResume ==
    Resume("queryPostcodeBtn", LAMBDA task, resp :
        TryCatch(queryPostcodeBtnTry(task.input, getJSON(resp))))

\* A faulty bulk lookup: the limit is tested with >=.
bulkLookupBtnOffByOne ==
    /\ MayClick
    /\ \E text \in BulkTexts : \E lines \in {BulkLines(text)} :
             IF Len(lines) = 0 THEN Returns("bulkLookupBtn", text, <<>>)
             ELSE IF Len(lines) >= BulkLimit
                  THEN Refuses("bulkLookupBtn", text,
                           <<"Bulk lookup is limited to 100 postcodes.">>)
             ELSE Fetches("bulkLookupBtn", text, <<>>,
                      Post(<<"/postcodes">>,
                           JObj(<< <<"postcodes">> >>,
                                <<JArr([i \in 1..Len(lines) |->
                                          JStr(lines[i])])>>)))

bulkLookupBtn ==
    /\ MayClick
    /\ \E text \in BulkTexts : \E lines \in {BulkLines(text)} :
             IF Len(lines) = 0 THEN Returns("bulkLookupBtn", text, <<>>)
             ELSE IF Len(lines) > BulkLimit
                  THEN Refuses("bulkLookupBtn", text,
                           <<"Bulk lookup is limited to 100 postcodes.">>)
             ELSE Fetches("bulkLookupBtn", text, <<>>,
                      Post(<<"/postcodes">>,
                           JObj(<< <<"postcodes">> >>,
                                <<JArr([i \in 1..Len(lines) |->
                                          JStr(lines[i])])>>)))

bulkLookupBtnResume ==
    Resume("bulkLookupBtn", LAMBDA task, resp :
        TryCatch(bulkLookupBtnTry(task.input, postJSON(resp))))

randomPostcodeBtn ==
    /\ MayClick
    /\ \E text \in FieldTexts :
         LET outcodeInput == trim(text)
         IN  Fetches("randomPostcodeBtn", outcodeInput, <<>>,
                 Get(<<"/random/postcodes">>,
                     IF outcodeInput # <<>>
                     THEN <<Param("outcode", outcodeInput)>> ELSE <<>>))

randomPostcodeBtnResume ==
    Resume("randomPostcodeBtn", LAMBDA task, resp :
        TryCatch(randomPostcodeBtnTry(task.input, getJSON(resp))))

autocompleteBtn ==
    OneField("autocompleteBtn", LAMBDA partial :
        Get(<<"/postcodes/">> \o encodeURIComponent(partial)
            \o <<"/autocomplete">>, <<Param("limit", <<"20">>)>>))

autocompleteBtnResume ==
    Resume("autocompleteBtn", LAMBDA task, resp :
        TryCatch(autocompleteBtnTry(task.input, getJSON(resp))))

nearestPostcodeBtn ==
    OneField("nearestPostcodeBtn", LAMBDA postcode :
        Get(<<"/postcodes/">> \o encodeURIComponent(postcode)
            \o <<"/nearest">>, <<Param("limit", <<"10">>)>>))

nearestPostcodeBtnResume ==
    Resume("nearestPostcodeBtn", LAMBDA task, resp :
        TryCatch(nearestPostcodeBtnTry(task.input, getJSON(resp))))

reverseGeocodeBtn ==
    LatLon("reverseGeocodeBtn", LAMBDA lat, lon :
        Get(<<"/postcodes">>,
            <<Param("lat", lat), Param("lon", lon),
              Param("limit", <<"10">>), Param("radius", <<"200">>)>>))

reverseGeocodeBtnResume ==
    Resume("reverseGeocodeBtn", LAMBDA task, resp :
        TryCatch(reverseGeocodeBtnTry(task.input, getJSON(resp))))

bulkReverseBtn ==
    /\ MayClick
    /\ \E text \in GeoTexts :
         LET input == trim(text)
             geolocations == JSONParse(input)
         IN  IF input = <<>> THEN Returns("bulkReverseBtn", text, <<>>)
             ELSE IF geolocations.threw \/ ~IsArray(geolocations.val)
                  THEN Refuses("bulkReverseBtn", text,
                           <<"Invalid JSON for bulk reverse geocode.">>)
             ELSE Fetches("bulkReverseBtn", text, <<>>,
                      Post(<<"/postcodes">>,
                           JObj(<< <<"geolocations">> >>,
                                <<geolocations.val>>)))

bulkReverseBtnResume ==
    Resume("bulkReverseBtn", LAMBDA task, resp :
        TryCatch(bulkReverseBtnTry(task.input, postJSON(resp))))

reverseOutcodeBtn ==
    LatLon("reverseOutcodeBtn", LAMBDA lat, lon :
        Get(<<"/outcodes">>,
            <<Param("lat", lat), Param("lon", lon),
              Param("limit", <<"10">>), Param("radius", <<"5000">>)>>))

reverseOutcodeBtnResume ==
    Resume("reverseOutcodeBtn", LAMBDA task, resp :
        TryCatch(reverseOutcodeBtnTry(task.input, getJSON(resp))))

lookupOutcodeBtn ==
    OneField("lookupOutcodeBtn", LAMBDA outcode :
        Get(<<"/outcodes/">> \o encodeURIComponent(outcode), <<>>))

lookupOutcodeBtnResume ==
    Resume("lookupOutcodeBtn", LAMBDA task, resp :
        TryCatch(lookupOutcodeBtnTry(task.input, getJSON(resp))))

nearestOutcodeBtn ==
    OneField("nearestOutcodeBtn", LAMBDA outcode :
        Get(<<"/outcodes/">> \o encodeURIComponent(outcode)
            \o <<"/nearest">>, <<Param("limit", <<"10">>)>>))

nearestOutcodeBtnResume ==
    Resume("nearestOutcodeBtn", LAMBDA task, resp :
        TryCatch(nearestOutcodeBtnTry(task.input, getJSON(resp))))

lookupPlaceBtn ==
    OneField("lookupPlaceBtn", LAMBDA code :
        Get(<<"/places/">> \o encodeURIComponent(code), <<>>))

lookupPlaceBtnResume ==
    Resume("lookupPlaceBtn", LAMBDA task, resp :
        TryCatch(lookupPlaceBtnTry(task.input, getJSON(resp))))

queryPlaceBtn ==
    OneField("queryPlaceBtn", LAMBDA query :
        Get(<<"/places">>, <<Param("q", query), Param("limit", <<"20">>)>>))

queryPlaceBtnResume ==
    Resume("queryPlaceBtn", LAMBDA task, resp :
        TryCatch(queryPlaceBtnTry(task.input, getJSON(resp))))

randomPlaceBtn ==
    /\ MayClick
    /\ Fetches("randomPlaceBtn", <<>>, <<>>, Get(<<"/random/places">>, <<>>))

randomPlaceBtnResume ==
    Resume("randomPlaceBtn", LAMBDA task, resp :
        TryCatch(randomPlaceBtnTry(task.input, getJSON(resp))))

terminatedLookupBtn ==
    OneField("terminatedLookupBtn", LAMBDA postcode :
        Get(<<"/terminated_postcodes/">> \o encodeURIComponent(postcode), <<>>))

terminatedLookupBtnResume ==
    Resume("terminatedLookupBtn", LAMBDA task, resp :
        TryCatch(terminatedLookupBtnTry(task.input, getJSON(resp))))

scottishLookupBtn ==
    OneField("scottishLookupBtn", LAMBDA postcode :
        Get(<<"/scotland/postcodes/">> \o encodeURIComponent(postcode), <<>>))

scottishLookupBtnResume ==
    Resume("scottishLookupBtn", LAMBDA task, resp :
        TryCatch(scottishLookupBtnTry(task.input, getJSON(resp))))

(***************************************************************************)
(* The page: every handler bound, nothing clicked, the results empty.      *)
(***************************************************************************)
PageLoaded ==
    /\ results = <<>>
    /\ tasks = [t \in Tasks |-> IdleTask]
    /\ finished = <<>>
    /\ fetchCount = 0
    /\ rv = JUndef
    /\ rout = <<>>

Init == PageLoaded /\ concurrent = FALSE

Next ==
    \/ lookupPostcodeBtn \/ lookupPostcodeBtnResume
    \/ validatePostcodeBtn \/ validatePostcodeBtnResume
    \/ queryPostcodeBtn \/ queryPostcodeBtnResume
    \/ bulkLookupBtn \/ bulkLookupBtnResume
    \/ randomPostcodeBtn \/ randomPostcodeBtnResume
    \/ autocompleteBtn \/ autocompleteBtnResume
    \/ nearestPostcodeBtn \/ nearestPostcodeBtnResume
    \/ reverseGeocodeBtn \/ reverseGeocodeBtnResume
    \/ bulkReverseBtn \/ bulkReverseBtnResume
    \/ reverseOutcodeBtn \/ reverseOutcodeBtnResume
    \/ lookupOutcodeBtn \/ lookupOutcodeBtnResume
    \/ nearestOutcodeBtn \/ nearestOutcodeBtnResume
    \/ lookupPlaceBtn \/ lookupPlaceBtnResume
    \/ queryPlaceBtn \/ queryPlaceBtnResume
    \/ randomPlaceBtn \/ randomPlaceBtnResume
    \/ terminatedLookupBtn \/ terminatedLookupBtnResume
    \/ scottishLookupBtn \/ scottishLookupBtnResume

\* The user waits for each response before the next click.
Spec == Init /\ [][Next]_vars

\* The user clicks at any time.
RaceInit == PageLoaded /\ concurrent = TRUE
SpecRace == RaceInit /\ [][Next]_vars

(***************************************************************************)
(* The renderer on its own: generateHTML applied to every JSON value built *)
(* from the leaves below by nesting in sequences and mappings.             *)
(***************************************************************************)
Alphabet == {"a", "&", "<", ">", "\"", "'"}

\* The strings of at most MaxStrLen characters.
Strings == SeqsUpTo(Alphabet, MaxStrLen)

Leaves ==
    {JUndef, JNull, JBool(TRUE), JBool(FALSE), JNum(0), JNum(5)}
    \cup {JStr(s) : s \in Strings}

Siblings == {JNull, JStr(<<"<", "a", ">">>), JArr(<<>>)}
Keys == {<<"k">>, <<"<", "'">>, <<"&", "\"", ">">>}

RECURSIVE Depth(_)
Depth(v) ==
    IF v.t \notin {"arr", "obj"} \/ v.kids = <<>> THEN 0
    ELSE 1 + Max({Depth(v.kids[i]) : i \in 1..Len(v.kids)})

RenderInit ==
    /\ results = <<>>
    /\ tasks = [t \in Tasks |-> IdleTask]
    /\ finished = <<>>
    /\ fetchCount = 0
    /\ concurrent = FALSE
    /\ rv \in Leaves \cup {JArr(<<>>), JObj(<<>>, <<>>)}
    /\ rout = generateHTML(rv)

Render(value) ==
    /\ Depth(rv) < MaxDepth
    /\ rv' = value
    /\ rout' = generateHTML(value)
    /\ UNCHANGED <<results, tasks, finished, fetchCount, concurrent>>

RenderInSequence == Render(JArr(<<rv>>))
RenderBeforeSibling == \E w \in Siblings : Render(JArr(<<rv, w>>))
RenderInMapping == \E k \in Keys : Render(JObj(<<k>>, <<rv>>))
RenderInTwoEntries ==
    \E k \in Keys : Render(JObj(<<k, <<"a">> >>, <<JStr(k), rv>>))

RenderNext ==
    \/ RenderInSequence
    \/ RenderBeforeSibling
    \/ RenderInMapping
    \/ RenderInTwoEntries

SpecRender == RenderInit /\ [][RenderNext]_vars

(***************************************************************************)
(* Markup, as a reader of it sees it.                                      *)
(***************************************************************************)
OpenTags == {"<ul>", "<li>", "<strong>", "<span class=\"null\">"}
CloseTags == {"</ul>", "</li>", "</strong>", "</span>"}
CloseOf(tag) ==
    CASE tag = "<ul>" -> "</ul>"
      [] tag = "<li>" -> "</li>"
      [] tag = "<strong>" -> "</strong>"
      [] OTHER -> "</span>"
Entities == {"amp;", "lt;", "gt;", "quot;", "#039;"}

\* The markup from position i on is well nested, given the open elements
\* (innermost first): tags balance, a list holds only items, an item sits
\* in a list, and text is never directly inside a list.
RECURSIVE Nests(_, _, _)
Nests(markup, i, open) ==
    IF i > Len(markup) THEN open = <<>>
    ELSE LET p == markup[i]
             inList == open # <<>> /\ Head(open) = "<ul>"
         IN  IF p \in OpenTags
             THEN /\ (p = "<li>") = inList
                  /\ p = "<strong>" => (open # <<>> /\ Head(open) = "<li>")
                  /\ Nests(markup, i + 1, <<p>> \o open)
             ELSE IF p \in CloseTags
             THEN /\ open # <<>>
                  /\ p = CloseOf(Head(open))
                  /\ Nests(markup, i + 1, Tail(open))
             ELSE ~inList /\ Nests(markup, i + 1, open)

WellFormed(markup) == Nests(markup, 1, <<>>)

\* No piece is a raw reserved character: < > " ' never stand alone, and an
\* ampersand only starts one of the five entities.
NoRawReserved(markup) ==
    \A i \in 1..Len(markup) :
        /\ markup[i] \notin {"<", ">", "\"", "'"}
        /\ markup[i] = "&" => (i < Len(markup) /\ markup[i + 1] \in Entities)

\* The reserved characters of the strings and keys of a value.
RECURSIVE ReservedIn(_)
ReservedIn(v) ==
    LET own(s) == {s[i] : i \in 1..Len(s)} \cap {"&", "<", ">", "\"", "'"}
    IN  CASE v.t = "str" -> own(v.s)
          [] v.t = "arr" -> UNION {ReservedIn(v.kids[i]) : i \in 1..Len(v.kids)}
          [] v.t = "obj" ->
                UNION {ReservedIn(v.kids[i]) \cup own(v.keys[i]) :
                          i \in 1..Len(v.kids)}
          [] OTHER -> {}

\* C7: for every JSON value, generateHTML gives well-formed nested list
\* markup in which no reserved character of a leaf string or of a key stands
\* raw: each appears only as its entity.
C7_RenderEscapes == WellFormed(rout) /\ NoRawReserved(rout)

\* C7 witness: a nested mapping whose key and leaf carry all five reserved
\* characters has been rendered.
C7_Witness ==
    /\ rv.t = "obj"
    /\ Depth(rv) = MaxDepth
    /\ ReservedIn(rv) = {"&", "<", ">", "\"", "'"}
    /\ rout = generateHTML(rv)
    /\ Len(rout) > 6

(***************************************************************************)
(* What the claims speak of.                                               *)
(***************************************************************************)
LookupHandlers ==
    {"lookupPostcodeBtn", "lookupOutcodeBtn", "lookupPlaceBtn",
     "terminatedLookupBtn", "scottishLookupBtn"}
SingleHandlers == LookupHandlers \cup {"randomPostcodeBtn", "randomPlaceBtn"}
BulkHandlers == {"bulkLookupBtn", "bulkReverseBtn"}
PerItemHandlers ==
    BulkHandlers \cup
    {"queryPostcodeBtn", "nearestPostcodeBtn", "reverseGeocodeBtn",
     "reverseOutcodeBtn", "nearestOutcodeBtn", "queryPlaceBtn"}

Done(t) == tasks[t].pc = "done"
Dispatched(t) == tasks[t].reqs # <<>>
Kept(t) == tasks[t].pc \in {"awaiting", "done"}

\* The request of t settled with a parsed JSON body.
GotJSON(t) ==
    ~tasks[t].resp.rejected /\ tasks[t].resp.ok /\ tasks[t].resp.parses
Body(t) == tasks[t].resp.body
ResultOf(t) == Field(Body(t), "result")

IsSuccessCard(c) == ~IsErrorCard(c)
ErrorCardWith(c, message) ==
    /\ c.title = <<"Error">>
    /\ c.data = JObj(<< <<"message">> >>, <<message>>)

\* The results area ends with the cards t appended.
ShowsLast(t) ==
    LET n == Len(results)
        k == Len(tasks[t].appended)
    IN  k <= n /\ SubSeq(results, n - k + 1, n) = tasks[t].appended

\* The number of items before the first null item.
BeforeFirstNull(items) ==
    LET bad == {i \in 1..Len(items) : Nullish(items[i])}
    IN  IF bad = {} THEN Len(items) ELSE Min(bad) - 1

\* What the card of an item shows.
ItemData(handler, item) ==
    CASE handler = "bulkLookupBtn" ->
             IF Truthy(Field(item, "result")) THEN Field(item, "result")
             ELSE JObj(<< <<"error">> >>, <<JStr(<<"Not found">>)>>)
      [] handler = "bulkReverseBtn" -> Field(item, "result")
      [] OTHER -> item

\* The request of t ended in a failure: of the transport, of the parsing,
\* a body that is no envelope, or a null item met while rendering.
Failed(t) ==
    \/ ~GotJSON(t)
    \/ Body(t).t # "obj"
    \/ /\ tasks[t].handler \in PerItemHandlers
       /\ Is200(Body(t))
       /\ IsArray(ResultOf(t))
       /\ \E i \in 1..Len(ResultOf(t).kids) : Nullish(ResultOf(t).kids[i])

(***************************************************************************)
(* C2                                                                      *)
(***************************************************************************)
\* C2: no handler lets an error escape: whatever its request settles with
\* (network failure, HTTP error status, unparseable body, null, a non-object,
\* a sequence with null items), the handler returns normally, and a failure
\* ends as an error card at the end of the results area.
C2_NoErrorEscapes ==
    \A t \in Tasks :
        (Done(t) /\ Dispatched(t)) =>
            /\ ~tasks[t].escaped
            /\ Failed(t) =>
                 /\ tasks[t].appended # <<>>
                 /\ IsErrorCard(tasks[t].appended[Len(tasks[t].appended)])
                 /\ ShowsLast(t)

\* C2 witness: a search met a null item after rendering one card, and ended
\* with an error card, the error caught.
C2_Witness ==
    \E t \in Tasks :
        /\ Done(t)
        /\ tasks[t].handler = "queryPostcodeBtn"
        /\ GotJSON(t)
        /\ ResultOf(t) = JArr(<<ItemA, JNull>>)
        /\ Len(tasks[t].appended) = 2
        /\ IsErrorCard(tasks[t].appended[2])
        /\ ~tasks[t].escaped

(***************************************************************************)
(* C3                                                                      *)
(***************************************************************************)
LimitMessage == JStr(<<"Bulk lookup is limited to 100 postcodes.">>)
InvalidMessage == JStr(<<"Invalid JSON for bulk reverse geocode.">>)

\* t refused its input: one error card with the message, and no request.
RefusedWith(t, message) ==
    /\ Done(t)
    /\ tasks[t].reqs = <<>>
    /\ Len(tasks[t].appended) = 1
    /\ ErrorCardWith(tasks[t].appended[1], message)

BulkLookupRule(t) ==
    LET n == Len(BulkLines(tasks[t].input))
    IN  /\ n > BulkLimit => RefusedWith(t, LimitMessage)
        /\ (n >= 1 /\ n <= BulkLimit) =>
              /\ Len(tasks[t].reqs) = 1
              /\ tasks[t].reqs[1].method = "POST"

NotASequence(text) == JSONParse(text).threw \/ ~IsArray(JSONParse(text).val)

\* C3 as amended: a bulk lookup of more than 100 entries, and a bulk reverse
\* geocode whose input is not empty after trimming and is not valid JSON or
\* not a sequence, append one error card (the limit, invalid JSON) and issue
\* no request; a bulk lookup of 1 to 100 entries issues exactly one POST.
C3_RefusalsNeverFetch ==
    \A t \in Tasks :
        /\ (Kept(t) /\ tasks[t].handler = "bulkLookupBtn") => BulkLookupRule(t)
        /\ (Kept(t) /\ tasks[t].handler = "bulkReverseBtn"
              /\ trim(tasks[t].input) # <<>> /\ NotASequence(tasks[t].input))
           => RefusedWith(t, InvalidMessage)

\* C3 as claimed: every input text that is not valid JSON gets the error card.
C3_AsClaimed ==
    \A t \in Tasks :
        /\ (Kept(t) /\ tasks[t].handler = "bulkLookupBtn") => BulkLookupRule(t)
        /\ (Kept(t) /\ tasks[t].handler = "bulkReverseBtn"
              /\ NotASequence(tasks[t].input))
           => RefusedWith(t, InvalidMessage)

\* C3 witness: a bulk lookup of 101 entries was refused without a request.
C3_Witness ==
    \E t \in Tasks :
        /\ tasks[t].handler = "bulkLookupBtn"
        /\ Len(BulkLines(tasks[t].input)) = BulkLimit + 1
        /\ RefusedWith(t, LimitMessage)
        /\ fetchCount = 0

(***************************************************************************)
(* C4                                                                      *)
(***************************************************************************)
\* C4: with actions run one after another, once an action has appended a
\* card, the results area holds only cards of that action.
C4_OnlyOwnCards ==
    ~concurrent =>
        \A t \in Tasks :
            (Done(t) /\ tasks[t].appended # <<>>) =>
                \A i \in 1..Len(results) : results[i].owner = t

(***************************************************************************)
(* C5                                                                      *)
(***************************************************************************)
HasSuccessCard(t) ==
    \E i \in 1..Len(tasks[t].appended) : IsSuccessCard(tasks[t].appended[i])

\* C5 as amended: every handler but the validation renders a success card
\* only if the envelope's status is 200; the validation renders one only if
\* the envelope's result is a boolean.
C5_SuccessNeedsStatus ==
    \A t \in Tasks :
        (Done(t) /\ HasSuccessCard(t)) =>
            /\ GotJSON(t)
            /\ IF tasks[t].handler = "validatePostcodeBtn"
               THEN ResultOf(t).t = "bool"
               ELSE Is200(Body(t))

\* C5 as claimed: every handler renders a success card only on status 200.
C5_AsClaimed ==
    \A t \in Tasks :
        (Done(t) /\ HasSuccessCard(t)) => (GotJSON(t) /\ Is200(Body(t)))

\* C5 witness: a lookup got a status-200 envelope and rendered its card.
C5_Witness ==
    \E t \in Tasks :
        /\ Done(t)
        /\ tasks[t].handler = "lookupPostcodeBtn"
        /\ GotJSON(t) /\ Is200(Body(t))
        /\ Len(tasks[t].appended) = 1
        /\ IsSuccessCard(tasks[t].appended[1])

(***************************************************************************)
(* C6                                                                      *)
(***************************************************************************)
\* t got a status-200 envelope whose result is a sequence its handler
\* accepts: any sequence for the bulk handlers, a non-empty one otherwise.
GotSequence(t) ==
    /\ Done(t) /\ GotJSON(t) /\ ~Nullish(Body(t)) /\ Is200(Body(t))
    /\ IsArray(ResultOf(t))
    /\ tasks[t].handler \in BulkHandlers \/ Len(ResultOf(t).kids) > 0

\* The first k cards t appended show the first k items, in order.
ShowsItems(t, k) ==
    /\ Len(tasks[t].appended) >= k
    /\ \A i \in 1..k :
          /\ IsSuccessCard(tasks[t].appended[i])
          /\ tasks[t].appended[i].data
                = ItemData(tasks[t].handler, ResultOf(t).kids[i])

\* t appended one success card, showing data.
OneCardOf(t, data) ==
    /\ Len(tasks[t].appended) = 1
    /\ IsSuccessCard(tasks[t].appended[1])
    /\ tasks[t].appended[1].data = data

\* C6 as amended: on a status-200 sequence of n items, every per-item
\* handler (all sequence actions but the autocomplete) appends one card per
\* item in sequence order, n cards in all when no item is null, and stops
\* with an error card at the first null item; the autocomplete appends
\* exactly one card, showing the whole sequence; an action whose result is a
\* single value appends exactly one card.
C6_CardsPerItem ==
    \A t \in Tasks :
        /\ (GotSequence(t) /\ tasks[t].handler \in PerItemHandlers) =>
             LET n == Len(ResultOf(t).kids)
                 k == BeforeFirstNull(ResultOf(t).kids)
             IN  /\ ShowsItems(t, k)
                 /\ k = n => Len(tasks[t].appended) = n
                 /\ k < n => /\ Len(tasks[t].appended) = k + 1
                             /\ IsErrorCard(tasks[t].appended[k + 1])
        /\ (GotSequence(t) /\ tasks[t].handler = "autocompleteBtn") =>
             OneCardOf(t, ResultOf(t))
        /\ (Done(t) /\ GotJSON(t) /\ ~Nullish(Body(t)) /\ Is200(Body(t))
              /\ tasks[t].handler \in SingleHandlers) =>
             OneCardOf(t, ResultOf(t))
        /\ (Done(t) /\ GotJSON(t) /\ ~Nullish(Body(t))
              /\ tasks[t].handler = "validatePostcodeBtn"
              /\ ResultOf(t).t = "bool") =>
             /\ Len(tasks[t].appended) = 1
             /\ IsSuccessCard(tasks[t].appended[1])

NoNullItem(t) ==
    \A i \in 1..Len(ResultOf(t).kids) : ~Nullish(ResultOf(t).kids[i])

\* C6 as claimed: every action with a sequence result of n items appends
\* exactly n cards, one per item, in order; an action with a single-value
\* result appends exactly one card.  (Stated for the sequences without a
\* null item: a null item ends the rendering early, which is C9's matter.)
C6_AsClaimed ==
    \A t \in Tasks :
        /\ (GotSequence(t) /\ NoNullItem(t)
              /\ tasks[t].handler \in PerItemHandlers \cup {"autocompleteBtn"}) =>
             /\ Len(tasks[t].appended) = Len(ResultOf(t).kids)
             /\ ShowsItems(t, Len(ResultOf(t).kids))
        /\ (Done(t) /\ GotJSON(t) /\ ~Nullish(Body(t)) /\ Is200(Body(t))
              /\ tasks[t].handler \in SingleHandlers) =>
             OneCardOf(t, ResultOf(t))

\* C6 witness: a search rendered both items of its result, in order.
C6_Witness ==
    \E t \in Tasks :
        /\ GotSequence(t)
        /\ tasks[t].handler = "nearestOutcodeBtn"
        /\ ResultOf(t) = JArr(<<ItemB, ItemA>>)
        /\ Len(tasks[t].appended) = 2
        /\ tasks[t].appended[1].data = ItemB
        /\ tasks[t].appended[2].data = ItemA
        /\ ShowsLast(t)

(***************************************************************************)
(* C8                                                                      *)
(***************************************************************************)
\* C8: a lookup handler given the envelope {status:404, error:E}, E not
\* empty, appends exactly one card, the error card with message E, and has
\* issued the one request only.
C8_NotFoundShown ==
    \A t \in Tasks :
        (Done(t) /\ tasks[t].handler \in LookupHandlers /\ GotJSON(t)
           /\ Field(Body(t), "status") = JNum(404)
           /\ Field(Body(t), "error").t = "str"
           /\ Field(Body(t), "error").s # <<>>) =>
            /\ Len(tasks[t].appended) = 1
            /\ ErrorCardWith(tasks[t].appended[1], Field(Body(t), "error"))
            /\ ShowsLast(t)
            /\ Len(tasks[t].reqs) = 1

\* C8 witness: the postcode lookup got {status:404, error:E} and showed E.
C8_Witness ==
    \E t \in Tasks :
        /\ Done(t)
        /\ tasks[t].handler = "lookupPostcodeBtn"
        /\ tasks[t].resp
             = Parsed(Envelope(JNum(404), JUndef, JStr(<<"Postcode not found">>)))
        /\ results = tasks[t].appended
        /\ Len(results) = 1
        /\ ErrorCardWith(results[1], JStr(<<"Postcode not found">>))
        /\ fetchCount = 1

(***************************************************************************)
(* C9 and C10                                                              *)
(***************************************************************************)
\* C9: an invocation that dispatched a request ends having appended only
\* success cards, or exactly one error card and no success card.
C9_TwoExits ==
    \A t \in Tasks :
        (Done(t) /\ Dispatched(t)) =>
            \/ \A i \in 1..Len(tasks[t].appended) :
                  IsSuccessCard(tasks[t].appended[i])
            \/ /\ Len(tasks[t].appended) = 1
               /\ IsErrorCard(tasks[t].appended[1])

\* C10: an invocation whose request has settled appended at least one card,
\* so the results area is not empty when it has run alone.
C10_NeverEmpty ==
    \A t \in Tasks :
        (Done(t) /\ Dispatched(t)) =>
            (tasks[t].appended # <<>> /\ (~concurrent => results # <<>>))

(***************************************************************************)
(* C1                                                                      *)
(***************************************************************************)
\* b was clicked last, while the request of a, and only of a, was awaited;
\* both dispatched a request and both have returned.
Overlapped(a, b) ==
    /\ a # b
    /\ Done(a) /\ Done(b)
    /\ Dispatched(a) /\ Dispatched(b)
    /\ tasks[b].during = {a}
    /\ \A t \in Tasks : t > b => tasks[t].pc = "idle"

Position(t) == CHOOSE i \in 1..Len(finished) : finished[i] = t
FinishedBefore(a, b) == Position(a) < Position(b)

TwoRequests(a, b) ==
    /\ Len(tasks[a].reqs) + Len(tasks[b].reqs) = 2
    /\ (a = 1 /\ b = 2) => fetchCount = 2

\* C1 as amended: two actions in rapid succession issue exactly two
\* requests, and once both handlers have completed the results area holds
\* the cards of both: those of the handler that completed first, followed by
\* those of the handler that completed last.
C1_BothHandlersShown ==
    \A a \in Tasks, b \in Tasks :
        Overlapped(a, b) =>
            /\ TwoRequests(a, b)
            /\ results = IF FinishedBefore(a, b)
                         THEN tasks[a].appended \o tasks[b].appended
                         ELSE tasks[b].appended \o tasks[a].appended

\* C1 as claimed: the results area holds exactly the cards of the handler
\* that completed last, and none of the other handler.
C1_AsClaimed ==
    \A a \in Tasks, b \in Tasks :
        Overlapped(a, b) =>
            /\ TwoRequests(a, b)
            /\ results = IF FinishedBefore(a, b)
                         THEN tasks[b].appended
                         ELSE tasks[a].appended

\* C1 witness: the second click came before the first response, the second
\* handler completed first, and the results hold its two cards followed by
\* the two cards of the first.
C1_Witness ==
    /\ Overlapped(1, 2)
    /\ FinishedBefore(2, 1)
    /\ Len(tasks[1].appended) = 2
    /\ Len(tasks[2].appended) = 2
    /\ [i \in 1..4 |-> results[i].owner] = <<2, 2, 1, 1>>
    /\ fetchCount = 2

=============================================================================
